---- MODULE Spec2Model ----
(***************************************************************************)
(* data_analyzer.Dataset (src/data_analyzer/dataset.py) as a state machine. *)
(*                                                                         *)
(* One Dataset object is modelled.  Its attributes x, y, ymax, smoothed    *)
(* and maximum_found are the state; every public method is one action.     *)
(* A call that raises leaves the name of the Python exception in err; the  *)
(* value a call returns is left in ret, and the call itself in op, until   *)
(* the caller takes them (Returned) and is free to make its next call.     *)
(* fresh holds from the construction to the first method call; passes      *)
(* counts the filter passes over the array that is self.y.                 *)
(*                                                                         *)
(* numpy arrays are records [dim, rows]:                                    *)
(*    dim = 2   rows is the sequence of curves (all of width CurveLen)      *)
(*    dim = 1   rows = << the one sequence of samples >>                    *)
(*    dim = 0   rows = << << the scalar >> >>                               *)
(* float64 samples are fixed-point integers, Resolution units to 1.0; the  *)
(* filter's quotient is rounded to the nearest unit.                       *)
(***************************************************************************)
EXTENDS Integers, Sequences, FiniteSets, TLC

VARIABLES alive, fresh, pc, passes, x, y, ymax, smoothed, maximum_found, op,
          err, ret, warned

vars == <<alive, fresh, pc, passes, x, y, ymax, smoothed, maximum_found, op,
          err, ret, warned>>

attrs == <<x, y, ymax, smoothed, maximum_found>>

(***************************************************************************)
(* Bounds of the model.                                                    *)
(***************************************************************************)
\* samples per curve
CurveLen == 5
\* rows of the arrays a caller passes in, and rows appended to x over a run
MaxRows == 2
\* filter passes over one array
MaxPasses == 2
\* fixed-point units per 1.0
Resolution == 70

\* a 2-D y and ymax are extended up to this many rows or values
MaxLen == MaxRows + 1

\* a 1-D y is extended up to this many samples
MaxSamples == CurveLen + 1

(***************************************************************************)
(* Program constants.                                                      *)
(***************************************************************************)
\* savgol(y, window_length, polyorder=3)
DefaultPolyorder == 3
\* distance = 500
DefaultDistance == 500
\* prominence = 0.025, in thousandths
DefaultProminenceMilli == 25

(***************************************************************************)
(* Arrays.                                                                 *)
(***************************************************************************)
\* an attribute that was never assigned (self.ymax before peak extraction)
NoArr == [dim |-> -1, rows |-> <<>>]

Arr1(c) == [dim |-> 1, rows |-> <<c>>]

Arr2(rs) == [dim |-> 2, rows |-> rs]

Scalar(v) == [dim |-> 0, rows |-> << <<v>> >>]

\* len(a) of a 1-D or 2-D array
PyLen(a) == IF a.dim = 1 THEN Len(a.rows[1]) ELSE Len(a.rows)

\* np.concatenate((a, b), axis=0) raises ValueError unless both have the same
\* number of dimensions, at least one
ConcatOK(a, b) == a.dim = b.dim /\ a.dim >= 1

Concat(a, b) ==
    IF a.dim = 1 THEN Arr1(a.rows[1] \o b.rows[1]) ELSE Arr2(a.rows \o b.rows)

Iota(n) == [i \in 1..n |-> i]

RECURSIVE SumTo(_, _)
SumTo(f, n) == IF n = 0 THEN 0 ELSE f[n] + SumTo(f, n - 1)

SetMax(S) == CHOOSE m \in S : \A s \in S : s <= m

SetMin(S) == CHOOSE m \in S : \A s \in S : m <= s

CurveMax(c) == SetMax({c[i] : i \in 1..Len(c)})

(***************************************************************************)
(* scipy.signal.savgol_filter(data, window_length, polyorder), as the code *)
(* calls it: mode = 'interp', polyorder = 3.  The admissible odd windows   *)
(* of a curve of at most CurveLen + 1 samples are window_length = 5 only;  *)
(* for it the cubic least-squares fit of a 5-sample window w leaves        *)
(*     fit[k] = w[k] - Quartic[k] * (Quartic . w) / (Quartic . Quartic)    *)
(* and 'interp' takes the first (last) two samples from the fit of the     *)
(* first (last) window, every other sample from the window centred on it.  *)
(***************************************************************************)
Quartic == <<1, -4, 6, -4, 1>>

QuarticNorm == SumTo([k \in 1..5 |-> Quartic[k] * Quartic[k]], 5)

\* a / b rounded to the nearest integer (b > 0)
RoundDiv(a, b) == (2 * a + b) \div (2 * b)

\* savgol_filter raises ValueError for these
SavgolAccepts(n, window_length, polyorder) ==
    polyorder < window_length /\ window_length <= n

WinStart(n, i) == IF i <= 2 THEN 1 ELSE IF i >= n - 1 THEN n - 4 ELSE i - 2

Resid(c, s) == SumTo([k \in 1..5 |-> Quartic[k] * c[s + k - 1]], 5)

savgol_filter(c, window_length, polyorder) ==
    [i \in 1..Len(c) |->
        LET s == WinStart(Len(c), i)
        IN  RoundDiv(QuarticNorm * c[i] - Quartic[i - s + 1] * Resid(c, s),
                     QuarticNorm)]

(***************************************************************************)
(* scipy.signal.find_peaks(c, distance, height, prominence)[0]: the local  *)
(* maxima, filtered by height, then by distance, then by prominence.       *)
(***************************************************************************)
PlateauEnd(c, i) ==
    SetMax({j \in i..Len(c) : \A k \in i..j : c[k] = c[i]})

\* strict rise before a plateau that ends in a strict fall; the midpoint
LocalMaxima(c) ==
    {(i + PlateauEnd(c, i)) \div 2 :
        i \in {i \in 2..(Len(c) - 1) :
                  /\ c[i - 1] < c[i]
                  /\ PlateauEnd(c, i) < Len(c)
                  /\ c[PlateauEnd(c, i) + 1] < c[i]}}

\* height2 is twice the height threshold
ByHeight(c, P, height2) == {p \in P : 2 * c[p] >= height2}

\* highest peak first (the later one of equals); it removes its neighbours
RECURSIVE ByDistance(_, _, _)
ByDistance(c, P, distance) ==
    IF P = {} THEN {}
    ELSE LET top == SetMax({c[p] : p \in P})
             j   == SetMax({p \in P : c[p] = top})
         IN  {j} \cup ByDistance(c, {p \in P : p - j >= distance
                                              \/ j - p >= distance}, distance)

LeftBase(c, p) ==
    LET lo == SetMin({i \in 1..p : \A k \in i..p : c[k] <= c[p]})
    IN  SetMin({c[k] : k \in lo..p})

RightBase(c, p) ==
    LET hi == SetMax({i \in p..Len(c) : \A k \in p..i : c[k] <= c[p]})
    IN  SetMin({c[k] : k \in p..hi})

Prominence(c, p) ==
    LET l == LeftBase(c, p)
        r == RightBase(c, p)
    IN  c[p] - (IF l > r THEN l ELSE r)

ByProminence(c, P, milli) ==
    {p \in P : 1000 * Prominence(c, p) >= milli * Resolution}

find_peaks(c, distance, height2, milli) ==
    ByProminence(c, ByDistance(c, ByHeight(c, LocalMaxima(c), height2),
                               distance), milli)

\* find_peaks(y[i], ..., height = 0.5 * max(y[i]), ...)[0]
Peaks(c, distance) ==
    find_peaks(c, distance, CurveMax(c), DefaultProminenceMilli)

\* y[i, find_peaks(...)[0][0]]
FirstPeakValue(c, distance) == c[SetMin(Peaks(c, distance))]

\* 0-based np.argmax of a 2-D array, flattened row by row
FlatArgmax(rs) ==
    LET top == SetMax({CurveMax(rs[r]) : r \in 1..Len(rs)})
        r0  == SetMin({r \in 1..Len(rs) : CurveMax(rs[r]) = top})
        c0  == SetMin({k \in 1..Len(rs[r0]) : rs[r0][k] = top})
    IN  (r0 - 1) * Len(rs[r0]) + (c0 - 1)

(***************************************************************************)
(* What a call leaves behind: the exception it raised ("none" when it      *)
(* returned), whether warnings.warn ran, and the value.                    *)
(***************************************************************************)
Res(e, w, a) == [err |-> e, warned |-> w, out |-> a]

Ok(a) == Res("none", FALSE, a)

NoRet == [kind |-> "none", x |-> <<>>, arr |-> NoArr]

RetArr(a) == [kind |-> "array", x |-> <<>>, arr |-> a]

RetData(xs, a) == [kind |-> "data", x |-> xs, arr |-> a]

\* **kwargs of smooth_y
NoWindow == [has |-> FALSE, window_length |-> 0]

Window(w) == [has |-> TRUE, window_length |-> w]

\* **kwargs of find_maximum: is 'height' given, and the distance in effect
NoKwargs == [height |-> FALSE, distance |-> DefaultDistance]

(***************************************************************************)
(* Dataset.savgol(y, window_length, polyorder=3).  A 2-D y is filtered row *)
(* by row into y itself (ynew = y is the same array); a 1-D y yields a new *)
(* array.  An even window_length warns and then reads the unbound local    *)
(* 'window'.                                                               *)
(***************************************************************************)
savgol(a, window_length, polyorder) ==
    IF window_length % 2 = 0
    THEN Res("UnboundLocalError", TRUE, a)
    ELSE IF a.dim > 1
    THEN IF Len(a.rows) = 0
         THEN Ok(a)
         ELSE IF ~SavgolAccepts(Len(a.rows[1]), window_length, polyorder)
         THEN Res("ValueError", FALSE, a)
         ELSE Ok(Arr2([i \in 1..Len(a.rows) |->
                          savgol_filter(a.rows[i], window_length, polyorder)]))
    ELSE IF ~SavgolAccepts(Len(a.rows[1]), window_length, polyorder)
    THEN Res("ValueError", FALSE, a)
    ELSE Ok(Arr1(savgol_filter(a.rows[1], window_length, polyorder)))

(***************************************************************************)
(* The body of Dataset.smooth_y up to its call of the smoother:            *)
(* kwargs['window_length'], smoothers[smoothing], savgol(y, window_length). *)
(***************************************************************************)
SmoothY(a, smoothing, kw) ==
    IF ~kw.has THEN Res("KeyError", FALSE, a)
    ELSE IF smoothing # "savgol" THEN Res("KeyError", FALSE, a)
    ELSE savgol(a, kw.window_length, DefaultPolyorder)

(***************************************************************************)
(* The body of Dataset.find_maximum before self.maximum_found = True.  The *)
(* branch is taken on self.y's shape, not on the argument's.  With         *)
(* 'height' given, height_flag is unbound where it is read.                *)
(***************************************************************************)
FindMaximum(selfy, a, kw) ==
    IF selfy.dim > 1
    THEN IF PyLen(a) = 0 THEN Ok(Arr1(<<>>))
         ELSE IF kw.height THEN Res("UnboundLocalError", FALSE, NoArr)
         ELSE IF a.dim = 1 THEN Res("IndexError", FALSE, NoArr)
         ELSE IF \E i \in 1..Len(a.rows) : Peaks(a.rows[i], kw.distance) = {}
         THEN Res("IndexError", FALSE, NoArr)
         ELSE Ok(Arr1([i \in 1..Len(a.rows) |->
                          FirstPeakValue(a.rows[i], kw.distance)]))
    ELSE IF kw.height THEN Res("UnboundLocalError", FALSE, NoArr)
    ELSE IF a.dim = 1
    THEN IF Len(a.rows[1]) = 0 THEN Res("ValueError", FALSE, NoArr)
         ELSE IF Peaks(a.rows[1], kw.distance) = {}
         THEN Res("IndexError", FALSE, NoArr)
         ELSE Ok(Scalar(FirstPeakValue(a.rows[1], kw.distance)))
    ELSE IF Len(a.rows) = 0 THEN Res("ValueError", FALSE, NoArr)
    ELSE IF FlatArgmax(a.rows) >= Len(a.rows)
    THEN Res("IndexError", FALSE, NoArr)
    ELSE Res("ValueError", FALSE, NoArr)

(***************************************************************************)
(* Inputs.                                                                 *)
(***************************************************************************)
\* a constant curve: no local maximum
Flat == [i \in 1..CurveLen |-> Resolution]

\* one peak, at sample 3
Bump == [i \in 1..CurveLen |->
            IF i = 3 THEN 3 * Resolution
            ELSE IF i \in {2, 4} THEN Resolution ELSE 0]

\* a lower peak at sample 2 before the highest at sample 4
TwoPeak == [i \in 1..CurveLen |->
               IF i = 2 THEN 2 * Resolution
               ELSE IF i = 4 THEN 3 * Resolution ELSE 0]

\* a small peak at sample 2 on a rising curve: the filter flattens it away
Shoulder == [i \in 1..CurveLen |->
                IF i = 1 THEN 0
                ELSE IF i = 2 THEN 10 * Resolution
                ELSE IF i = 3 THEN 10 * Resolution - Resolution \div 10
                ELSE (6 + 2 * i) * Resolution]

\* n curves with a peak each, no two neighbours alike
Peaked(n) == [i \in 1..n |-> IF i % 2 = 1 THEN TwoPeak ELSE Bump]

\* n curves, the last of them flat
WithFlat(n) == [i \in 1..n |-> IF i = n THEN Flat ELSE Peaked(n)[i]]

\* n curves, the last of them with the shoulder
WithShoulder(n) == [i \in 1..n |-> IF i = n THEN Shoulder ELSE Peaked(n)[i]]

ArrayInputs ==
    {Arr1(Bump), Arr2(Peaked(0)), Arr2(Peaked(MaxRows)),
     Arr2(WithFlat(MaxRows)), Arr2(WithShoulder(MaxRows))}

\* an array argument: the Dataset's own y (the same object) or another array
ArgInputs ==
    {[self |-> TRUE, arr |-> y]}
    \cup {[self |-> FALSE, arr |-> a] :
             a \in {Arr1(Flat), Arr2(Peaked(MaxRows))}}

XInputs == {Iota(n) : n \in {MaxRows, CurveLen}}

\* feature rows above this are the appended ones
FeatureBase == CurveLen + 1

\* new feature rows, told apart from the initial ones
FeatureInputs == {[i \in 1..n |-> FeatureBase + i] : n \in {1, MaxRows}}

\* the rows of xs that an extension appended
Appended(xs) == Cardinality({i \in 1..Len(xs) : xs[i] > FeatureBase})

WindowLengths == {3, 4, 5, CurveLen + 2}

WindowInputs == {NoWindow} \cup {Window(w) : w \in WindowLengths}

\* (smoothing, kwargs) of smooth_y; "other" is a method smoothers lacks
SmoothInputs ==
    {[smoothing |-> "savgol", kw |-> kw] : kw \in WindowInputs}
    \cup {[smoothing |-> "other", kw |-> Window(5)]}

KwargInputs ==
    {NoKwargs, [height |-> FALSE, distance |-> 1],
     [height |-> TRUE, distance |-> DefaultDistance]}

None == [has |-> FALSE]

Some(v) == [has |-> TRUE, val |-> v]

(***************************************************************************)
(* State after nothing was constructed.                                    *)
(***************************************************************************)
Init ==
    /\ alive = FALSE
    /\ fresh = FALSE
    /\ pc = "idle"
    /\ passes = 0
    /\ x = <<>>
    /\ y = NoArr
    /\ ymax = NoArr
    /\ smoothed = FALSE
    /\ maximum_found = FALSE
    /\ op = [name |-> "none"]
    /\ err = "none"
    /\ ret = NoRet
    /\ warned = FALSE

\* a method call on the constructed object
Enter ==
    /\ alive
    /\ pc = "idle"
    /\ pc' = "returned"
    /\ fresh' = FALSE
    /\ UNCHANGED alive

\* the caller has the outcome of its call
Returned ==
    /\ pc = "returned"
    /\ pc' = "idle"
    /\ op' = [name |-> "none"]
    /\ err' = "none"
    /\ ret' = NoRet
    /\ warned' = FALSE
    /\ UNCHANGED <<alive, fresh, passes, attrs>>

\* a call that raises e and changes no attribute
Raise(e, w) ==
    /\ err' = e
    /\ warned' = w
    /\ ret' = NoRet
    /\ UNCHANGED attrs

\* a call that returns r
Return(r) ==
    /\ err' = "none"
    /\ warned' = FALSE
    /\ ret' = r

(***************************************************************************)
(* Dataset(x, y).  InputError is a name the module never defines: the      *)
(* raise statement itself raises NameError.                                *)
(***************************************************************************)
Dataset(x0, y0) ==
    /\ ~alive
    /\ pc = "idle"
    /\ pc' = "returned"
    /\ op' = [name |-> "Dataset", x |-> x0, y |-> y0]
    /\ IF Len(x0) # PyLen(y0)
       THEN Raise("NameError", FALSE) /\ UNCHANGED <<alive, fresh, passes>>
       ELSE /\ alive' = TRUE
            /\ passes' = 0
            /\ fresh' = TRUE
            /\ x' = x0
            /\ y' = y0
            /\ smoothed' = FALSE
            /\ maximum_found' = FALSE
            /\ UNCHANGED ymax
            /\ Return(NoRet)

\* Dataset.__call__
call ==
    /\ Enter
    /\ op' = [name |-> "call"]
    /\ Return(RetData(x, y))
    /\ UNCHANGED <<passes, attrs>>

get_data ==
    /\ Enter
    /\ op' = [name |-> "get_data"]
    /\ Return(RetData(x, y))
    /\ UNCHANGED <<passes, attrs>>

get_ymax ==
    /\ Enter
    /\ op' = [name |-> "get_ymax"]
    /\ IF ymax = NoArr
       THEN Raise("AttributeError", FALSE)
       ELSE Return(RetArr(ymax)) /\ UNCHANGED attrs
    /\ UNCHANGED passes

\* replace_y, had it reset the flags that describe the old y
replace_y_resetting(new_y) ==
    /\ Enter
    /\ op' = [name |-> "replace_y", y |-> new_y]
    /\ y' = new_y
    /\ passes' = 0
    /\ smoothed' = FALSE
    /\ maximum_found' = FALSE
    /\ Return(NoRet)
    /\ UNCHANGED <<x, ymax>>

update_y(new_y) ==
    /\ Enter
    /\ op' = [name |-> "update_y", y |-> new_y]
    /\ y' = new_y
    /\ passes' = 0
    /\ Return(NoRet)
    /\ UNCHANGED <<x, ymax, smoothed, maximum_found>>

replace_y(new_y) ==
    /\ Enter
    /\ op' = [name |-> "replace_y", y |-> new_y]
    /\ y' = new_y
    /\ passes' = 0
    /\ Return(NoRet)
    /\ UNCHANGED <<x, ymax, smoothed, maximum_found>>

(***************************************************************************)
(* Dataset.savgol called on its own (a static method).                     *)
(***************************************************************************)
savgol_call(src, window_length) ==
    LET r == savgol(src.arr, window_length, DefaultPolyorder)
    IN  /\ Enter
        /\ op' = [name |-> "savgol", self |-> src.self, y |-> src.arr,
                  window_length |-> window_length]
        /\ err' = r.err
        /\ warned' = r.warned
        /\ ret' = IF r.err = "none" THEN RetArr(r.out) ELSE NoRet
        /\ IF r.err = "none" /\ src.self /\ src.arr.dim > 1
           THEN passes < MaxPasses /\ passes' = passes + 1 /\ y' = r.out
           ELSE UNCHANGED <<passes, y>>
        /\ UNCHANGED <<x, ymax, smoothed, maximum_found>>

(***************************************************************************)
(* Dataset.smooth_y(y, smoothing, **kwargs).                               *)
(***************************************************************************)
smooth_y(src, smoothing, kw) ==
    LET r == SmoothY(src.arr, smoothing, kw)
    IN  /\ Enter
        /\ op' = [name |-> "smooth_y", self |-> src.self, y |-> src.arr,
                  smoothing |-> smoothing, kw |-> kw]
        /\ err' = r.err
        /\ warned' = r.warned
        /\ ret' = IF r.err = "none" THEN RetArr(r.out) ELSE NoRet
        /\ IF r.err = "none" /\ src.self /\ src.arr.dim > 1
           THEN passes < MaxPasses /\ passes' = passes + 1 /\ y' = r.out
           ELSE UNCHANGED <<passes, y>>
        /\ smoothed' = IF r.err = "none" THEN TRUE ELSE smoothed
        /\ UNCHANGED <<x, ymax, maximum_found>>

(***************************************************************************)
(* Dataset.find_maximum(y, **kwargs).                                      *)
(***************************************************************************)
find_maximum(src, kw) ==
    LET r == FindMaximum(y, src.arr, kw)
    IN  /\ Enter
        /\ op' = [name |-> "find_maximum", self |-> src.self, y |-> src.arr,
                  kw |-> kw]
        /\ err' = r.err
        /\ warned' = FALSE
        /\ ret' = IF r.err = "none" THEN RetArr(r.out) ELSE NoRet
        /\ maximum_found' = IF r.err = "none" THEN TRUE ELSE maximum_found
        /\ UNCHANGED <<passes, x, y, ymax, smoothed>>

\* prep_data_mlaq, had it looked for the peaks before it filtered
prep_data_mlaq_peaks_first(window_length) ==
    LET r1 == SmoothY(y, "savgol", Window(window_length))
        r2 == FindMaximum(y, y, NoKwargs)
    IN  /\ Enter
        /\ op' = [name |-> "prep_data_mlaq", window_length |-> window_length,
                  first |-> fresh]
        /\ ret' = NoRet
        /\ IF r1.err # "none"
           THEN /\ err' = r1.err
                /\ warned' = r1.warned
                /\ UNCHANGED <<passes, attrs>>
           ELSE /\ passes < MaxPasses
                /\ passes' = passes + 1
                /\ y' = r1.out
                /\ smoothed' = TRUE
                /\ err' = r2.err
                /\ warned' = FALSE
                /\ ymax' = IF r2.err = "none" THEN r2.out ELSE ymax
                /\ maximum_found' =
                       IF r2.err = "none" THEN TRUE ELSE maximum_found
                /\ UNCHANGED x

(***************************************************************************)
(* Dataset.prep_data_mlaq(window_length): self.y = self.smooth_y(self.y,   *)
(* ...), then self.ymax = self.find_maximum(self.y).  first records that   *)
(* the call is the first one on the constructed object.                    *)
(***************************************************************************)
prep_data_mlaq(window_length) ==
    LET r1 == SmoothY(y, "savgol", Window(window_length))
        r2 == FindMaximum(r1.out, r1.out, NoKwargs)
    IN  /\ Enter
        /\ op' = [name |-> "prep_data_mlaq", window_length |-> window_length,
                  first |-> fresh]
        /\ ret' = NoRet
        /\ IF r1.err # "none"
           THEN /\ err' = r1.err
                /\ warned' = r1.warned
                /\ UNCHANGED <<passes, attrs>>
           ELSE /\ passes < MaxPasses
                /\ passes' = passes + 1
                /\ y' = r1.out
                /\ smoothed' = TRUE
                /\ err' = r2.err
                /\ warned' = FALSE
                /\ ymax' = IF r2.err = "none" THEN r2.out ELSE ymax
                /\ maximum_found' =
                       IF r2.err = "none" THEN TRUE ELSE maximum_found
                /\ UNCHANGED x
    
(***************************************************************************)
(* Dataset.extend_data(features, targets, ymax).  x is extended first.     *)
(* With ymax given, it is targets that is appended to self.ymax.  Without, *)
(* smooth_y is called with no window_length, and after self.y is extended  *)
(* len(targets.shape[0]) takes the len of an int.                          *)
(***************************************************************************)
extend_data(features, targets, ymax_given) ==
    LET x1 == IF features.has THEN x \o features.val ELSE x
        r1 == IF smoothed THEN SmoothY(targets.val, "savgol", NoWindow)
              ELSE Ok(targets.val)
        r2 == IF maximum_found THEN FindMaximum(y, r1.out, NoKwargs)
              ELSE Ok(NoArr)
    IN  /\ Enter
        /\ Appended(x1) <= MaxRows
        /\ op' = [name |-> "extend_data", features |-> features,
                  targets |-> targets, ymax |-> ymax_given]
        /\ x' = x1
        /\ ret' = NoRet
        /\ warned' = FALSE
        /\ UNCHANGED <<passes, smoothed, maximum_found>>
        /\ IF ~targets.has
           THEN err' = "none" /\ UNCHANGED <<y, ymax>>
           ELSE IF ymax_given
           THEN IF ymax = NoArr
                THEN err' = "AttributeError" /\ UNCHANGED <<y, ymax>>
                ELSE IF ~ConcatOK(ymax, targets.val)
                THEN err' = "ValueError" /\ UNCHANGED <<y, ymax>>
                ELSE /\ PyLen(ymax) + PyLen(targets.val) <= MaxLen
                     /\ ymax' = Concat(ymax, targets.val)
                     /\ err' = "none"
                     /\ UNCHANGED y
           ELSE IF r1.err # "none"
           THEN err' = r1.err /\ UNCHANGED <<y, ymax>>
           ELSE IF r2.err # "none"
           THEN err' = r2.err /\ UNCHANGED <<y, ymax>>
           ELSE IF ~ConcatOK(y, r1.out)
           THEN err' = "ValueError" /\ UNCHANGED <<y, ymax>>
           ELSE /\ PyLen(y) + PyLen(r1.out)
                      <= (IF y.dim = 1 THEN MaxSamples ELSE MaxLen)
                /\ y' = Concat(y, r1.out)
                /\ err' = "TypeError"
                /\ UNCHANGED ymax

(***************************************************************************)
(* Dataset.extend_ymax(ymax_new): the argument of np.concatenate reads     *)
(* self.ymax and then ynew_max, a name the method never binds.             *)
(***************************************************************************)
extend_ymax(ymax_new) ==
    /\ Enter
    /\ op' = [name |-> "extend_ymax", ymax_new |-> ymax_new]
    /\ Raise(IF ymax = NoArr THEN "AttributeError" ELSE "NameError", FALSE)
    /\ UNCHANGED passes

(***************************************************************************)
(* Dataset.save_data(path, y): after np.save of the features it calls      *)
(* self.eval, an attribute a Dataset does not have.  The file written is   *)
(* outside the model.                                                      *)
(***************************************************************************)
save_data(which) ==
    /\ Enter
    /\ op' = [name |-> "save_data", y |-> which]
    /\ Raise("AttributeError", FALSE)
    /\ UNCHANGED passes

FeatureArgs == {None} \cup {Some(f) : f \in FeatureInputs}

\* precomputed maxima, one per row
YmaxInputs == {Arr1([i \in 1..n |-> i * Resolution]) : n \in {1, MaxRows}}

TargetArgs ==
    {None, Some(Arr2(Peaked(MaxRows))), Some(Arr2(WithFlat(1))),
     Some(Arr1(<<Resolution>>))}

Next ==
    \/ \E x0 \in XInputs, y0 \in ArrayInputs : Dataset(x0, y0)
    \/ call
    \/ get_data
    \/ get_ymax
    \/ \E a \in ArrayInputs : update_y(a)
    \/ \E a \in ArrayInputs : replace_y(a)
    \/ \E src \in ArgInputs, w \in WindowLengths : savgol_call(src, w)
    \/ \E src \in ArgInputs, a \in SmoothInputs :
           smooth_y(src, a.smoothing, a.kw)
    \/ \E src \in ArgInputs, kw \in KwargInputs : find_maximum(src, kw)
    \/ \E w \in WindowLengths : prep_data_mlaq(w)
    \/ \E f \in FeatureArgs, t \in TargetArgs :
           \E g \in (IF t.has THEN BOOLEAN ELSE {FALSE}) : extend_data(f, t, g)
    \/ \E v \in YmaxInputs : extend_ymax(v)
    \/ \E which \in {"ymax", "y"} : save_data(which)
    \/ Returned

Spec == Init /\ [][Next]_vars

(***************************************************************************)
(* The claims.  A step of a method m is a step that leaves op'.name = m;   *)
(* the unprimed variables are the state before the call.                   *)
(***************************************************************************)
NumCurves(a) == IF a.dim = 2 THEN Len(a.rows) ELSE 1

NumValues(a) == IF a.dim = 0 THEN 1 ELSE PyLen(a)

ValidOddWindow(w, n) == w % 2 = 1 /\ SavgolAccepts(n, w, DefaultPolyorder)

NewFeatures(o) == IF o.features.has THEN Len(o.features.val) ELSE 0

NewTargets(o) == IF o.targets.has THEN PyLen(o.targets.val) ELSE 0

\* C1: a construction with len(x) # len(y) fails with the validation error
\* (InputError) and leaves no Dataset; one with len(x) = len(y) succeeds with
\* smoothed and maximum_found false, no ymax, and x and y as passed in, which
\* is what get_data returns.
C1_Construction ==
    /\ op.name = "Dataset" =>
          IF Len(op.x) # PyLen(op.y)
          THEN err = "InputError" /\ ~alive
          ELSE /\ err = "none" /\ alive
               /\ ~smoothed /\ ~maximum_found /\ ymax = NoArr
               /\ x = op.x /\ y = op.y
    /\ op.name = "get_data" => ret = RetData(x, y)

\* C2 (I1): an extend_data call made with len(x) = len(y) leaves
\* len(x) = len(y), and it fails with the validation error when the number of
\* new feature rows differs from the number of new target curves.
C2_ExtendKeepsI1 ==
    [][(op'.name = "extend_data" /\ Len(x) = PyLen(y)) =>
          /\ Len(x') = PyLen(y')
          /\ (~op'.ymax /\ NewFeatures(op') # NewTargets(op'))
                => err' = "InputError"]_vars

\* C3 (I2): whenever maximum_found is true, ymax exists and holds one value
\* per curve of y.
C3_I2 ==
    (alive /\ maximum_found) =>
        (ymax # NoArr /\ NumValues(ymax) = NumCurves(y))

\* C4: a call of extend_data, extend_ymax, smooth_y, find_maximum or
\* prep_data_mlaq that ends in an error leaves x, y, ymax, smoothed and
\* maximum_found as they were before the call.
C4_FailureAtomic ==
    [][(/\ op'.name \in {"extend_data", "extend_ymax", "smooth_y",
                         "find_maximum", "prep_data_mlaq"}
        /\ err' # "none")
          => UNCHANGED attrs]_vars

\* C5: extend_ymax(v) on a Dataset that has ymax appends v to ymax and
\* leaves x and y alone when len(ymax) + len(v) <= len(x); otherwise it fails
\* with the validation error and leaves ymax alone.
C5_ExtendYmax ==
    [][(op'.name = "extend_ymax" /\ ymax.dim = 1) =>
          IF PyLen(ymax) + PyLen(op'.ymax_new) <= Len(x)
          THEN /\ err' = "none"
               /\ ymax' = Concat(ymax, op'.ymax_new)
               /\ x' = x /\ y' = y
          ELSE err' = "InputError" /\ ymax' = ymax]_vars

\* what prep_data_mlaq(window_length) is to leave behind on N curves
PrepDone ==
    /\ err' = "none"
    /\ y'.dim = 2
    /\ Len(y'.rows) = Len(y.rows)
    /\ \A i \in 1..Len(y.rows) :
          /\ Len(y'.rows[i]) = Len(y.rows[i])
          /\ y'.rows[i] = savgol_filter(y.rows[i], op'.window_length,
                                        DefaultPolyorder)
    /\ ymax' = Arr1([i \in 1..Len(y.rows) |->
                        FirstPeakValue(y'.rows[i], DefaultDistance)])
    /\ smoothed' /\ maximum_found'
    /\ x' = x

PrepOnFresh ==
    /\ op'.name = "prep_data_mlaq"
    /\ fresh
    /\ y.dim = 2
    /\ ValidOddWindow(op'.window_length, CurveLen)

\* C6 as stated: prep_data_mlaq with a valid odd window on a freshly
\* constructed Dataset of N curves that each contain a detectable peak
\* completes, stores the filtered curves in y, the N peaks of the filtered
\* curves in ymax, in curve order, and sets smoothed and maximum_found.
C6_PrepOnRawPeaks ==
    [][(/\ PrepOnFresh
        /\ \A i \in 1..Len(y.rows) : Peaks(y.rows[i], DefaultDistance) # {})
          => PrepDone]_vars

\* C6 as amended: the same, for N curves that each still contain a
\* detectable peak once they are filtered.
C6_PrepOnFilteredPeaks ==
    [][(/\ PrepOnFresh
        /\ \A i \in 1..Len(y.rows) :
              Peaks(savgol_filter(y.rows[i], op'.window_length,
                                  DefaultPolyorder), DefaultDistance) # {})
          => PrepDone]_vars

C6_Witness ==
    /\ op.name = "prep_data_mlaq"
    /\ op.first
    /\ err = "none"
    /\ y = Arr2([i \in 1..MaxRows |->
                    savgol_filter(Peaked(MaxRows)[i], op.window_length,
                                  DefaultPolyorder)])
    /\ y # Arr2(Peaked(MaxRows))
    /\ ymax.dim = 1
    /\ Len(ymax.rows[1]) = MaxRows
    /\ ymax.rows[1][1] # ymax.rows[1][2]
    /\ smoothed /\ maximum_found

\* C7: extend_data(features, targets) with k new feature rows and k new raw
\* curves succeeds in every lifecycle state: x and y are the old rows
\* followed by the new ones (y's new curves filtered exactly when smoothed
\* was true), ymax grows by k values when maximum_found was true and is
\* untouched otherwise, and the flags keep their values.
C7_ExtendRaw ==
    [][(/\ op'.name = "extend_data"
        /\ op'.features.has /\ op'.targets.has /\ ~op'.ymax
        /\ y.dim = 2 /\ op'.targets.val.dim = 2
        /\ NewFeatures(op') = NewTargets(op'))
          => /\ err' = "none"
             /\ x' = x \o op'.features.val
             /\ y'.dim = 2
             /\ Len(y'.rows) = Len(y.rows) + NewTargets(op')
             /\ \A i \in 1..Len(y.rows) : y'.rows[i] = y.rows[i]
             /\ ~smoothed => y' = Concat(y, op'.targets.val)
             /\ smoothed =>
                   \E w \in {w \in WindowLengths : ValidOddWindow(w, CurveLen)} :
                       \A i \in 1..NewTargets(op') :
                           y'.rows[Len(y.rows) + i] =
                               savgol_filter(op'.targets.val.rows[i], w,
                                             DefaultPolyorder)
             /\ IF maximum_found
                THEN NumValues(ymax') = NumValues(ymax) + NewTargets(op')
                ELSE ymax' = ymax
             /\ smoothed' = smoothed
             /\ maximum_found' = maximum_found]_vars

\* C8: smooth_y with an even window_length does not fail for that: it warns,
\* filters every curve with window_length + 1, returns the result and sets
\* smoothed.
C8_EvenWindow ==
    [][(/\ op'.name = "smooth_y"
        /\ op'.smoothing = "savgol"
        /\ op'.kw.has
        /\ op'.kw.window_length % 2 = 0
        /\ ValidOddWindow(op'.kw.window_length + 1, CurveLen))
          => /\ err' = "none"
             /\ warned'
             /\ ret' = RetArr(savgol(op'.y, op'.kw.window_length + 1,
                                     DefaultPolyorder).out)
             /\ smoothed']_vars

\* C9: find_maximum fails with the no-peak-found error, and does not set
\* maximum_found, when a curve has no qualifying peak; otherwise it returns
\* the first qualifying peak of every curve, in curve order, and sets
\* maximum_found.
C9_FindMaximum ==
    [][(/\ op'.name = "find_maximum"
        /\ ~op'.kw.height
        /\ op'.y.dim = y.dim
        /\ PyLen(op'.y) > 0)
          => IF \E i \in 1..Len(op'.y.rows) :
                    Peaks(op'.y.rows[i], op'.kw.distance) = {}
             THEN err' = "NoPeakFoundError" /\ maximum_found' = maximum_found
             ELSE /\ err' = "none"
                  /\ maximum_found'
                  /\ ret'.arr.rows[1] =
                        [i \in 1..Len(op'.y.rows) |->
                            FirstPeakValue(op'.y.rows[i], op'.kw.distance)]]_vars

\* C10: replace_y(new_y) succeeds and changes y alone: y becomes new_y, and
\* x, ymax (or its absence), smoothed and maximum_found stay as they were.
C10_ReplaceY ==
    [][op'.name = "replace_y" =>
          /\ err' = "none"
          /\ y' = op'.y
          /\ UNCHANGED <<x, ymax, smoothed, maximum_found>>]_vars

C10_Witness ==
    /\ op.name = "replace_y"
    /\ err = "none"
    /\ y = op.y
    /\ Len(x) # PyLen(y)
    /\ smoothed /\ maximum_found
    /\ ymax # NoArr
    /\ NumValues(ymax) # NumCurves(y)

====
